---- MODULE Spec2Model ----
(***************************************************************************)
(* A model of flashcards.py: the page loop of create_pdf (pagination,      *)
(* duplex remap, page emission), the line scanner parse_to_flowables, and  *)
(* the card numbering of main / create_anki_deck.                          *)
(*                                                                         *)
(* Four specifications share the module 's variables:                      *)
(*   SpecPdf    the page loop of create_pdf                                *)
(*   SpecParse  parse_to_flowables, one step per line of a face            *)
(*   SpecMain   main's section loop, create_anki_deck, the PDF captions    *)
(*   SpecPre    preprocess_markdown, one step per line of a face           *)
(***************************************************************************)
EXTENDS Integers, Sequences, FiniteSets, Bags, TLC

(***************************************************************************)
(* Bounds of the model.                                                    *)
(***************************************************************************)
MaxCards == 10

(***************************************************************************)
(* Program constants.                                                      *)
(***************************************************************************)
\* The step of range(0, len(questions), 4) and the width of the slices.
PerPage == 4
\* row, col = i // 2, i % 2
Cols == 2

VARIABLES
    \* ---- create_pdf ----
    questions,  \* the list of question strings, one per card
    answers,    \* the list of answer strings
    i,          \* the loop variable of `for i in range(0, len(questions), 4)`
    pc,         \* position in the page loop
    qbatch,     \* the items last passed to draw_page(.., True)
    abatch,     \* the items last passed to draw_page(.., False)
    page,       \* the canvas' current page: the draw_page calls since showPage
    pages,      \* the pages closed by showPage, in order
    saved,      \* c.save() was called
    \* ---- parse_to_flowables ----
    lines,       \* text.split("\n"), less the popped caption line
    is_question, \* the is_question argument
    images_dir,  \* "unset" (None) or "set" (a directory holding AssetFiles)
    ppc,         \* position in parse_to_flowables
    pos,         \* number of lines the for loop has consumed
    in_code,
    code_lines,  \* positions (1-based, in lines) of the accumulated code lines
    in_table,
    table_data,  \* positions of the accumulated table rows
    flowables,
    card_num,
    branch,      \* history: the branch of the loop body each line took
    \* ---- main, create_anki_deck ----
    sections,    \* the sections of the document, after re.split
    anki,        \* args.anki
    mpc,         \* position in main
    sec,         \* number of sections the for loop has consumed
    deck_data,   \* the dict, as its items in insertion order
    pdf_qs,
    pdf_ans,
    notes,       \* the notes create_anki_deck added, in order
    captions,    \* the "ID: n" captions create_pdf drew, in card order
    \* ---- preprocess_markdown ----
    md_lines,        \* text.split("\n") of the face being preprocessed
    md_pc,           \* position in preprocess_markdown
    md_i,            \* number of lines the for loop has consumed
    md_in_table,     \* in_table
    header_sep_seen,
    md_in_code,      \* in_code
    cleaned_lines    \* the lines kept, each with the position it came from

pdfVars == <<questions, answers, i, pc, qbatch, abatch, page, pages, saved>>

parseVars == <<lines, is_question, images_dir, ppc, pos, in_code, code_lines,
               in_table, table_data, flowables, card_num, branch>>

mainVars == <<sections, anki, mpc, sec, deck_data, pdf_qs, pdf_ans, notes, captions>>

preVars == <<md_lines, md_pc, md_i, md_in_table, header_sep_seen, md_in_code,
             cleaned_lines>>

vars == <<pdfVars, parseVars, mainVars, preVars>>

(***************************************************************************)
(* Strings of the page loop.  A question string is never empty (main       *)
(* appends "\n<index>" to it); an answer string may be empty; the padding  *)
(* placeholder is the empty string too.                                    *)
(***************************************************************************)
Empty == [face |-> "empty", card |-> 0]
Q(n) == [face |-> "q", card |-> n]
A(n) == [face |-> "a", card |-> n]

Min(a, b) == IF a < b THEN a ELSE b

\* ceil(n / 4)
CeilDiv(n, d) == (n + d - 1) \div d

QuestionBatchShort(qs, off) ==
    SubSeq(qs, off + 1, Min(off + PerPage - 1, Len(qs)))

AnsBatchClipped(as, off) ==
    [j \in 1..Min(PerPage, Len(as) - off) |-> as[off + j]]

\* questions[i : i + 4]  (Python slices clip at the end of the list)
QuestionBatch(qs, off) ==
    SubSeq(qs, off + 1, Min(off + PerPage, Len(qs)))

\* [answers[j] if j < len(answers) else "" for j in range(i, i + 4)]
AnsBatch(as, off) ==
    [j \in 1..PerPage |-> IF off + j <= Len(as) THEN as[off + j] ELSE Empty]

\* The in-place swaps of lines 337-340.
Swap(b, m, n) == [b EXCEPT ![m] = b[n], ![n] = b[m]]

RemapNoSwap(b) == b

RemapRotate(b) ==
    IF Len(b) >= 2 THEN Tail(b) \o <<Head(b)>> ELSE b

Remap(b) ==
    IF Len(b) >= 2
    THEN LET b1 == Swap(b, 1, 2)
         IN  IF Len(b1) = 4 THEN Swap(b1, 3, 4) ELSE b1
    ELSE b

\* draw_page: the cells it draws.  The k-th item (0-based k) goes to
\* row k // 2, col k % 2; an empty item on the answer side is skipped.
DrawPage(items, isQuestionSide) ==
    { [row |-> (k - 1) \div Cols, col |-> (k - 1) % Cols, item |-> items[k]] :
        k \in { n \in 1..Len(items) : ~(items[n] = Empty /\ ~isQuestionSide) } }

\* One draw_page call as recorded on the canvas.
Draw(side, items, off) ==
    [side |-> side, off |-> off, items |-> items,
     cells |-> DrawPage(items, side = "Q")]

(***************************************************************************)
(* SpecPdf: create_pdf's page loop.                                        *)
(***************************************************************************)
\* The parts of the state a specification does not exercise.
IdlePdf ==
    /\ questions = <<>>
    /\ answers = <<>>
    /\ i = 0
    /\ pc = "idle"
    /\ qbatch = <<>>
    /\ abatch = <<>>
    /\ page = <<>>
    /\ pages = <<>>
    /\ saved = FALSE

IdleParse ==
    /\ lines = <<>>
    /\ is_question = FALSE
    /\ images_dir = "unset"
    /\ ppc = "idle"
    /\ pos = 0
    /\ in_code = FALSE
    /\ code_lines = <<>>
    /\ in_table = FALSE
    /\ table_data = <<>>
    /\ flowables = <<>>
    /\ card_num = 0
    /\ branch = <<>>

IdleMain ==
    /\ sections = <<>>
    /\ anki = FALSE
    /\ mpc = "idle"
    /\ sec = 0
    /\ deck_data = <<>>
    /\ pdf_qs = <<>>
    /\ pdf_ans = <<>>
    /\ notes = <<>>
    /\ captions = <<>>

IdlePre ==
    /\ md_lines = <<>>
    /\ md_pc = "idle"
    /\ md_i = 0
    /\ md_in_table = FALSE
    /\ header_sep_seen = FALSE
    /\ md_in_code = FALSE
    /\ cleaned_lines = <<>>

InitPdf ==
    /\ IdleParse
    /\ IdleMain
    /\ IdlePre
    /\ \E n \in 0..MaxCards : \E nonEmpty \in SUBSET (1..n) :
         /\ questions = [k \in 1..n |-> Q(k)]
         /\ answers = [k \in 1..n |-> IF k \in nonEmpty THEN A(k) ELSE Empty]
    /\ i = 0
    /\ pc = "loop"
    /\ qbatch = <<>>
    /\ abatch = <<>>
    /\ page = <<>>
    /\ pages = <<>>
    /\ saved = FALSE

\* draw_page(c, questions[i : i + 4], True)
DrawQuestionPage ==
    /\ pc = "loop"
    /\ i < Len(questions)
    /\ qbatch' = QuestionBatch(questions, i)
    /\ page' = Append(page, Draw("Q", qbatch', i))
    /\ pc' = "qshow"
    /\ UNCHANGED <<questions, answers, i, abatch, pages, saved, parseVars, mainVars, preVars>>

\* c.showPage() after the question page
ShowQuestionPage ==
    /\ pc = "qshow"
    /\ pages' = Append(pages, page)
    /\ page' = <<>>
    /\ pc' = "adraw"
    /\ UNCHANGED <<questions, answers, i, qbatch, abatch, saved, parseVars, mainVars, preVars>>

\* ans_batch = [...]; the swaps; draw_page(c, ans_batch, False)
DrawAnswerPage ==
    /\ pc = "adraw"
    /\ abatch' = Remap(AnsBatch(answers, i))
    /\ page' = Append(page, Draw("A", abatch', i))
    /\ pc' = "ashow"
    /\ UNCHANGED <<questions, answers, i, qbatch, pages, saved, parseVars, mainVars, preVars>>

ShowAnswerPageMerged ==
    /\ pc = "ashow"
    /\ i' = i + PerPage
    /\ pc' = "loop"
    /\ UNCHANGED <<questions, answers, qbatch, abatch, page, pages, saved, parseVars, mainVars, preVars>>

\* c.showPage() after the answer page; the loop variable advances by 4
ShowAnswerPage ==
    /\ pc = "ashow"
    /\ pages' = Append(pages, page)
    /\ page' = <<>>
    /\ i' = i + PerPage
    /\ pc' = "loop"
    /\ UNCHANGED <<questions, answers, qbatch, abatch, saved, parseVars, mainVars, preVars>>

\* c.save(), once the range is exhausted
Save ==
    /\ pc = "loop"
    /\ i >= Len(questions)
    /\ saved' = TRUE
    /\ pc' = "done"
    /\ UNCHANGED <<questions, answers, i, qbatch, abatch, page, pages, parseVars, mainVars, preVars>>

NextPdf ==
    \/ DrawQuestionPage
    \/ ShowQuestionPage
    \/ DrawAnswerPage
    \/ ShowAnswerPage
    \/ Save

SpecPdf == InitPdf /\ [][NextPdf]_vars

(***************************************************************************)
(* Properties of the page loop (SpecPdf).                                  *)
(***************************************************************************)
IsQuestionPage(pg) == pg # <<>> /\ pg[1].side = "Q"
IsAnswerPage(pg) == pg # <<>> /\ pg[1].side = "A"

\* The closed answer pages that directly follow a question page.
AnswerPageIndexes ==
    { p \in 2..Len(pages) : IsAnswerPage(pages[p]) /\ IsQuestionPage(pages[p - 1]) }

RECURSIVE Concat(_)
Concat(ss) == IF ss = <<>> THEN <<>> ELSE Head(ss) \o Concat(Tail(ss))

Occurrences(s, v) == Cardinality({ k \in 1..Len(s) : s[k] = v })
Range(s) == { s[k] : k \in 1..Len(s) }
IsPermutation(s, t) ==
    /\ Len(s) = Len(t)
    /\ \A v \in Range(s) \cup Range(t) : Occurrences(s, v) = Occurrences(t, v)

\* C1: duplex alignment.  On every answer page, the answer of the card whose
\* question is drawn in cell (row j // 2, col j % 2) of the question page sits
\* in the slot of cell (row j // 2, col 1 - j % 2) and, when it is not empty,
\* is drawn there; nothing else is drawn on the answer page, so padding
\* placeholders draw nothing and shift no answer.
C1_DuplexAlignment ==
    /\ \A p \in 1..Len(pages) : IsAnswerPage(pages[p]) => p \in AnswerPageIndexes
    /\ \A p \in AnswerPageIndexes :
        LET ad == pages[p][1]
            qd == pages[p - 1][1]
            cards == 0..(Len(qd.items) - 1)
        IN  /\ ad.off = qd.off
            /\ \A j \in cards :
                 LET row == j \div 2
                     col == j % 2
                     ans == answers[ad.off + j + 1]
                 IN  /\ qd.items[j + 1] = questions[qd.off + j + 1]
                     /\ [row |-> row, col |-> col, item |-> qd.items[j + 1]] \in qd.cells
                     /\ (row * 2) + (1 - col) + 1 \in 1..Len(ad.items)
                     /\ ad.items[(row * 2) + (1 - col) + 1] = ans
                     /\ ans # Empty =>
                          [row |-> row, col |-> 1 - col, item |-> ans] \in ad.cells
            /\ \A c \in ad.cells :
                 \E j \in cards :
                     c = [row |-> j \div 2, col |-> 1 - (j % 2),
                          item |-> answers[ad.off + j + 1]]

\* A closed answer page of a short final batch of one card whose answer is
\* drawn, beside three placeholders.
C1_Witness ==
    \E p \in AnswerPageIndexes :
        /\ Len(pages[p - 1][1].items) = 1
        /\ Cardinality(pages[p][1].cells) = 1
        /\ \E c \in pages[p][1].cells : c.row = 0 /\ c.col = 1

QuestionPages == SelectSeq(pages, IsQuestionPage)
QuestionBatches == [k \in 1..Len(QuestionPages) |-> QuestionPages[k][1].items]

\* C2: grid pagination.  Once create_pdf is done the question batches are
\* ceil(N/4) consecutive slices of the card list in the original order, each
\* of 1..4 cards and all but the last of exactly 4, their concatenation is the
\* card list, and question cell j of a batch is drawn at row j // 2, col j % 2.
C2_GridPagination ==
    pc = "done" =>
        LET N == Len(questions)
            bs == QuestionBatches
        IN  /\ Len(bs) = CeilDiv(N, 4)
            /\ \A k \in 1..Len(bs) :
                 /\ Len(bs[k]) \in 1..4
                 /\ k < Len(bs) => Len(bs[k]) = 4
                 /\ bs[k] = SubSeq(questions, 4 * (k - 1) + 1, 4 * (k - 1) + Len(bs[k]))
                 /\ QuestionPages[k][1].cells =
                      { [row |-> j \div 2, col |-> j % 2, item |-> bs[k][j + 1]] :
                          j \in 0..(Len(bs[k]) - 1) }
            /\ Concat(bs) = questions
            /\ N = 10 => [k \in 1..Len(bs) |-> Len(bs[k])] = <<4, 4, 2>>

\* Ten cards paginated into batches of 4, 4 and 2.
C2_Witness ==
    /\ pc = "done"
    /\ Len(questions) = 10
    /\ Len(QuestionBatches) = 3
    /\ Len(QuestionBatches[3]) = 2

\* C3: page emission order.  Every closed page holds exactly one draw_page
\* call; the pages alternate question page k, answer page k, question page
\* k + 1, ...; the page being drawn is the next one of that sequence; the
\* document is saved only after the last answer page, with 2 * ceil(N/4)
\* pages (none for N = 0).
C3_PageEmissionOrder ==
    /\ \A p \in 1..Len(pages) :
         /\ Len(pages[p]) = 1
         /\ pages[p][1].side = (IF p % 2 = 1 THEN "Q" ELSE "A")
         /\ pages[p][1].off = 4 * ((p - 1) \div 2)
    /\ Len(page) <= 1
    /\ page # <<>> =>
         /\ page[1].side = (IF Len(pages) % 2 = 0 THEN "Q" ELSE "A")
         /\ page[1].off = 4 * (Len(pages) \div 2)
    /\ Len(pages) <= 2 * CeilDiv(Len(questions), 4)
    /\ saved <=> pc = "done"
    /\ saved => page = <<>> /\ Len(pages) = 2 * CeilDiv(Len(questions), 4)

\* Five cards: four pages Q1 A1 Q2 A2 emitted, then the document saved.
C3_Witness ==
    /\ saved
    /\ Len(questions) = 5
    /\ Len(pages) = 4

\* C4: the duplex remap is an involution and a permutation.  Applying the
\* reordering again to the answer batch that was drawn gives back the batch
\* as it was built, and the drawn batch is a permutation of it; the same
\* holds of every prefix of the batch (batches of 0..4 answers).
C4_RemapInvolution ==
    \A p \in AnswerPageIndexes :
        LET ad == pages[p][1]
            raw == AnsBatch(answers, ad.off)
        IN  /\ Remap(ad.items) = raw
            /\ IsPermutation(ad.items, raw)
            /\ \A n \in 0..Len(raw) :
                 LET b == SubSeq(raw, 1, n)
                 IN  /\ Remap(Remap(b)) = b
                     /\ IsPermutation(Remap(b), b)

\* An answer batch of four different answers was remapped and drawn.
C4_Witness ==
    \E p \in AnswerPageIndexes :
        /\ Cardinality(Range(pages[p][1].items)) = 4
        /\ Empty \notin Range(pages[p][1].items)
        /\ pages[p][1].items # AnsBatch(answers, pages[p][1].off)

\* C5 as stated: for every page index the question batch has at most 4
\* items and the answer batch has as many items as the question batch.
C5_PageBatchEqualLength ==
    \A p \in AnswerPageIndexes :
        /\ Len(pages[p - 1][1].items) <= 4
        /\ Len(pages[p][1].items) = Len(pages[p - 1][1].items)

\* C5 as amended: the question batch has 1..4 items, the answer batch always
\* has exactly 4 (padded with empty placeholders), so the two lengths agree
\* exactly when the question batch is full; the padding entries are empty.
C5_PageBatchPadded ==
    \A p \in AnswerPageIndexes :
        LET ad == pages[p][1]
            qd == pages[p - 1][1]
            raw == Remap(ad.items)
        IN  /\ Len(qd.items) \in 1..4
            /\ Len(ad.items) = 4
            /\ Len(ad.items) >= Len(qd.items)
            /\ (Len(ad.items) = Len(qd.items)) <=> (Len(qd.items) = 4)
            /\ \A j \in 1..Len(raw) : j > Len(qd.items) => raw[j] = Empty

\* A short final batch of two questions drawn with its padded answer batch.
C5_Witness ==
    \E p \in AnswerPageIndexes :
        /\ Len(pages[p - 1][1].items) = 2
        /\ Len(pages[p][1].items) = 4

(***************************************************************************)
(* parse_to_flowables.                                                     *)
(*                                                                         *)
(* A line of a face is one of these texts; the operators below compute of  *)
(* each what the code's tests compute of it.                               *)
(*   "fence"   ```                                                         *)
(*   "row"     | a |                                                       *)
(*   "sep"     |---|                                                       *)
(*   "blank"   the empty line                                              *)
(*   "text"    78 letters                                                  *)
(*   "long"    79 letters                                                  *)
(*   "tab"     75 letters and one tab (76 characters)                      *)
(*   "bullet"  - item                                                      *)
(*   "imgA"    ![[a.png]]                                                  *)
(*   "imgB"    ![[b.png]]                                                  *)
(*   "mdimg"   ![](a.png)                                                  *)
(*   "index"   the card number main appends to a question                  *)
(***************************************************************************)
MaxLines == 4

ContentLines ==
    {"fence", "row", "sep", "blank", "text", "long", "tab", "bullet",
     "imgA", "imgB", "mdimg"}

\* The files of the attachments directory, when there is one.
AssetFiles == {"a.png"}

\* line_stripped.startswith("```")
IsFence(l) == l = "fence"

\* line_stripped.startswith("|") and line_stripped.endswith("|")
IsTableRow(l) == l \in {"row", "sep"}

\* all(re.match(r"^[-:]+$", c.replace(" ", "")) for c in row)
IsSeparatorRow(l) == l = "sep"

\* not line_stripped
IsBlank(l) == l = "blank"

\* _extract_image_names(line)
ExtractImageNames(l) ==
    IF l = "imgA" THEN <<"a.png">>
    ELSE IF l = "imgB" THEN <<"b.png">>
    ELSE <<>>

\* line_stripped.startswith("![") or line_stripped.startswith("](")
IsSkipped(l) == l \in {"mdimg", "imgA", "imgB"}

\* clean_txt.startswith("- ") or ... : the line is a list item
IsListItem(l) == l = "bullet"

\* len(line)
RawLen(l) ==
    CASE l = "fence"  -> 3
      [] l = "row"    -> 5
      [] l = "sep"    -> 5
      [] l = "blank"  -> 0
      [] l = "text"   -> 78
      [] l = "long"   -> 79
      [] l = "tab"    -> 76
      [] l = "bullet" -> 6
      [] l = "imgA"   -> 10
      [] l = "imgB"   -> 10
      [] l = "mdimg"  -> 10
      [] OTHER        -> 1

\* line.count("\t")
TabCount(l) == IF l = "tab" THEN 1 ELSE 0

\* _resolve_image_path: the path, or None
ResolveImagePath(filename, dir) ==
    IF dir # "unset" /\ filename \in AssetFiles THEN filename ELSE "None"

\* Lengths are in units of 1/254 pt, in which every length below is whole.
Pt(x) == 254 * x

\* landscape(A4)[0]: 297 mm, at 72 / 25.4 pt per mm
PageWidth == 297 * 720

\* outer_margin = 0.25 * inch
OuterMargin == Pt(72) \div 4

\* card_width = (page_width - (2 * outer_margin)) / 2
CardWidth == (PageWidth - (2 * OuterMargin)) \div 2

\* max_w = card_width - (outer_margin * 2.5)
MaxW == CardWidth - ((OuterMargin * 5) \div 2)

\* code_style: fontSize 7.5 and leading 9 (in tenths of a point), borderPadding 2
CodeFontSize == 75
CodeLeading == 90
BorderPadding == 2
\* longest_line.replace("\t", "    ")
TabSpaces == 4

\* c.stringWidth(s, "Courier", 7.5): every Courier glyph is 0.6 em wide
StringWidth(nChars) == (nChars * 6 * CodeFontSize * Pt(1)) \div 100

\* max(code_lines, key=len) if code_lines else "": the first line of
\* greatest length; given as the line's position, 0 for "".
RECURSIVE LongestLine(_, _)
LongestLine(ls, cl) ==
    IF cl = <<>> THEN 0
    ELSE LET rest == LongestLine(ls, Tail(cl))
         IN  IF rest = 0 \/ RawLen(ls[Head(cl)]) >= RawLen(ls[rest])
             THEN Head(cl) ELSE rest

\* len(longest_line.replace("\t", "    "))
ExpandedLen(ls, cl) ==
    LET n == LongestLine(ls, cl)
    IN  IF n = 0 THEN 0
        ELSE RawLen(ls[n]) + (TabSpaces - 1) * TabCount(ls[n])

\* req_width
ReqWidth(ls, cl) == StringWidth(ExpandedLen(ls, cl)) + Pt(BorderPadding * 2)

\* A scale factor is the fraction <<numerator, denominator>>.
One == <<1, 1>>

CodeScaleNoBuffer(req) == <<MaxW, req>>

\* scale = (max_w * 0.98) / req_width
CodeScale(req) == <<MaxW * 98, req * 100>>

\* custom_code_style: a size is <<nominal size, scale factor>>
CodeStyle(req) ==
    IF req > MaxW
    THEN [fontSize |-> <<CodeFontSize, CodeScale(req)>>,
          leading |-> <<CodeLeading, CodeScale(req)>>]
    ELSE [fontSize |-> <<CodeFontSize, One>>, leading |-> <<CodeLeading, One>>]

NoStyle == [fontSize |-> <<0, One>>, leading |-> <<0, One>>]

\* The flowables.  src: the positions of the lines rendered in the element;
\* close: of a code block, the position of its closing fence.
CodeBlock(ls, cl, at) ==
    [type |-> "code", src |-> cl, close |-> at, style |-> CodeStyle(ReqWidth(ls, cl))]
TableFlowable(td) ==
    [type |-> "table", src |-> td, close |-> 0, style |-> NoStyle]
ImageFlowable(at) ==
    [type |-> "image", src |-> <<at>>, close |-> 0, style |-> NoStyle]
ParagraphFlowable(l, at) ==
    [type |-> IF IsListItem(l) /\ ~is_question THEN "list" ELSE "para",
     src |-> <<at>>, close |-> 0, style |-> NoStyle]

\* Lines 219-226: a line that is no table row closes the open table.
CloseTable == IF in_table THEN Append(flowables, TableFlowable(table_data)) ELSE flowables

(***************************************************************************)
(* SpecParse: one call of parse_to_flowables(text, is_question).           *)
(*                                                                         *)
(* The faces are those main passes on: a question is one line followed by  *)
(* its card number; an answer is a stripped text, so a single (possibly    *)
(* blank) line or lines of which the first and the last are not blank.     *)
(***************************************************************************)
AnswerFaces ==
    UNION { { f \in [1..n -> ContentLines] :
                n > 1 => ~IsBlank(f[1]) /\ ~IsBlank(f[n]) } : n \in 1..MaxLines }

QuestionFaces == { <<l, "index">> : l \in ContentLines }

HasImageLine(f) == \E k \in 1..Len(f) : ExtractImageNames(f[k]) # <<>>

InitParse ==
    /\ IdlePdf
    /\ IdleMain
    /\ IdlePre
    /\ is_question \in BOOLEAN
    /\ lines \in (IF is_question THEN QuestionFaces ELSE AnswerFaces)
    \* main always passes a directory; create_pdf's default is None
    /\ images_dir \in (IF HasImageLine(lines) THEN {"unset", "set"} ELSE {"set"})
    /\ ppc = "start"
    /\ pos = 0
    /\ in_code = FALSE
    /\ code_lines = <<>>
    /\ in_table = FALSE
    /\ table_data = <<>>
    /\ flowables = <<>>
    /\ card_num = 0
    /\ branch = <<>>

\* Lines 157-159: card_num = lines.pop().strip() on a question face.
PopCardNum ==
    /\ ppc = "start"
    /\ IF is_question /\ lines # <<>>
       THEN /\ card_num' = lines[Len(lines)]
            /\ lines' = SubSeq(lines, 1, Len(lines) - 1)
       ELSE UNCHANGED <<card_num, lines>>
    /\ ppc' = "scan"
    /\ UNCHANGED <<is_question, images_dir, pos, in_code, code_lines, in_table,
                   table_data, flowables, branch, pdfVars, mainVars, preVars>>

\* The line the loop body is about to handle.
AtLine == ppc = "scan" /\ pos < Len(lines)
Line == lines[pos + 1]
Took(b) == /\ pos' = pos + 1
           /\ branch' = Append(branch, b)
           /\ UNCHANGED <<lines, is_question, images_dir, ppc, card_num,
                          pdfVars, mainVars, preVars>>

\* Lines 165-166, 190-192: a fence outside a code block opens one.
FenceOpen ==
    /\ AtLine
    /\ IsFence(Line)
    /\ ~in_code
    /\ in_code' = TRUE
    /\ Took("fence_open")
    /\ UNCHANGED <<code_lines, in_table, table_data, flowables>>

\* Lines 165-189, 192: a fence inside a code block closes it and emits it.
FenceClose ==
    /\ AtLine
    /\ IsFence(Line)
    /\ in_code
    /\ in_code' = FALSE
    /\ flowables' = Append(flowables, CodeBlock(lines, code_lines, pos + 1))
    /\ code_lines' = <<>>
    /\ Took("fence_close")
    /\ UNCHANGED <<in_table, table_data>>

\* Lines 193-195: any other line inside a code block is accumulated.
CodeLine ==
    /\ AtLine
    /\ ~IsFence(Line)
    /\ in_code
    /\ code_lines' = Append(code_lines, pos + 1)
    /\ Took("code")
    /\ UNCHANGED <<in_code, in_table, table_data, flowables>>

\* Lines 198-202: a separator row is consumed.
TableSeparator ==
    /\ AtLine
    /\ ~IsFence(Line)
    /\ ~in_code
    /\ IsTableRow(Line)
    /\ IsSeparatorRow(Line)
    /\ in_table' = TRUE
    /\ Took("sep")
    /\ UNCHANGED <<in_code, code_lines, table_data, flowables>>

\* Lines 198-217: a data row is accumulated.
TableRow ==
    /\ AtLine
    /\ ~IsFence(Line)
    /\ ~in_code
    /\ IsTableRow(Line)
    /\ ~IsSeparatorRow(Line)
    /\ in_table' = TRUE
    /\ table_data' = Append(table_data, pos + 1)
    /\ Took("row")
    /\ UNCHANGED <<in_code, code_lines, flowables>>

\* A line that reaches line 218: no fence, not in a code block, no table row.
PlainLine ==
    /\ AtLine
    /\ ~IsFence(Line)
    /\ ~in_code
    /\ ~IsTableRow(Line)

\* Lines 219-226, for every plain line.
TableClosed ==
    /\ in_table' = FALSE
    /\ table_data' = IF in_table THEN <<>> ELSE table_data
    /\ UNCHANGED <<in_code, code_lines>>

\* Lines 228-229: a blank line.
BlankLine ==
    /\ PlainLine
    /\ IsBlank(Line)
    /\ flowables' = CloseTable
    /\ TableClosed
    /\ Took("blank")

\* Lines 231-248: a line with an image reference.  The image is appended
\* when its path resolves and RLImage loads it; the except clause passes.
ImageLine ==
    /\ PlainLine
    /\ ~IsBlank(Line)
    /\ ExtractImageNames(Line) # <<>>
    /\ LET img_path == ResolveImagePath(ExtractImageNames(Line)[1], images_dir)
       IN  \/ /\ img_path # "None"
              /\ flowables' = Append(CloseTable, ImageFlowable(pos + 1))
              /\ Took("image")
           \/ /\ img_path # "None"
              /\ flowables' = CloseTable
              /\ Took("image_failed")
           \/ /\ img_path = "None"
              /\ flowables' = CloseTable
              /\ Took("image_unresolved")
    /\ TableClosed

\* Lines 251-252: a Markdown image line is skipped.
SkippedLine ==
    /\ PlainLine
    /\ ~IsBlank(Line)
    /\ ExtractImageNames(Line) = <<>>
    /\ IsSkipped(Line)
    /\ flowables' = CloseTable
    /\ TableClosed
    /\ Took("skipped")

\* Lines 254-285: text and list items become paragraphs.
TextLine ==
    /\ PlainLine
    /\ ~IsBlank(Line)
    /\ ExtractImageNames(Line) = <<>>
    /\ ~IsSkipped(Line)
    /\ flowables' = Append(CloseTable, ParagraphFlowable(Line, pos + 1))
    /\ TableClosed
    /\ Took("text")

\* Lines 287-294: the end of the face closes an open table, and returns.
Finish ==
    /\ ppc = "scan"
    /\ pos = Len(lines)
    /\ flowables' = IF in_table THEN Append(flowables, TableFlowable(table_data))
                    ELSE flowables
    /\ ppc' = "done"
    /\ UNCHANGED <<lines, is_question, images_dir, pos, in_code, code_lines,
                   in_table, table_data, card_num, branch, pdfVars, mainVars, preVars>>

NextParse ==
    \/ PopCardNum
    \/ FenceOpen
    \/ FenceClose
    \/ CodeLine
    \/ TableSeparator
    \/ TableRow
    \/ BlankLine
    \/ ImageLine
    \/ SkippedLine
    \/ TextLine
    \/ Finish

SpecParse == InitParse /\ [][NextParse]_vars

(***************************************************************************)
(* Properties of parse_to_flowables (SpecParse).                           *)
(***************************************************************************)
\* The lines of the face an element renders: its own, and of a code block
\* its closing fence.
Span(f) == Range(f.src) \cup (IF f.close = 0 THEN {} ELSE {f.close})

\* C6: flow element order is preserved.  In the returned list, every line of
\* an earlier element precedes every line of a later element in the face.
C6_FlowOrderPreserved ==
    ppc = "done" =>
        \A a, b \in 1..Len(flowables) :
            a < b => \A m \in Span(flowables[a]), n \in Span(flowables[b]) : m < n

\* C7: an unterminated fence is closed at the end of the face.  When the
\* face ends inside a code block, a code block holding every line
\* accumulated after the opening fence is among the returned elements.
C7_UnterminatedFenceClosed ==
    (ppc = "done" /\ in_code) =>
        \E k \in 1..Len(flowables) :
            /\ flowables[k].type = "code"
            /\ flowables[k].src = code_lines

\* C8: missing-image fallback.  Every line whose image reference did not
\* resolve, or whose image failed to load, is rendered as a text element.
C8_MissingImageFallback ==
    \A n \in 1..Len(branch) :
        branch[n] \in {"image_unresolved", "image_failed"} =>
            \E k \in 1..Len(flowables) :
                /\ flowables[k].type \in {"para", "list"}
                /\ flowables[k].src = <<n>>

\* a/b <= c/d for a, c >= 0 and b, d > 0, by continued fractions (the
\* cross products exceed the integers of the model checker).
RECURSIVE FracLeq(_, _, _, _)
FracLeq(a, b, c, d) ==
    IF a \div b # c \div d THEN a \div b < c \div d
    ELSE IF a % b = 0 THEN TRUE
    ELSE IF c % d = 0 THEN FALSE
    ELSE FracLeq(d, c % d, b, a % b)

\* The measured width of the longest line of a code block at the nominal
\* code font, and the block's required width.
MeasuredWidth(f) == StringWidth(ExpandedLen(lines, f.src))
RequiredWidth(f) == MeasuredWidth(f) + Pt(BorderPadding * 2)

\* C10: code fitter.  A code block whose required width exceeds max_w has
\* its font size and its leading multiplied by one scale factor, strictly
\* between 0 and 1, under which the measured width of its longest line (and
\* the required width too) is at most 0.98 * max_w; a code block whose
\* required width is at most max_w keeps the nominal code style.
C10_CodeFitter ==
    \A k \in 1..Len(flowables) :
        flowables[k].type = "code" =>
            LET f == flowables[k]
                scale == f.style.fontSize[2]
            IN  /\ f.style.fontSize[1] = CodeFontSize
                /\ f.style.leading[1] = CodeLeading
                /\ f.style.leading[2] = scale
                /\ IF RequiredWidth(f) > MaxW
                   THEN /\ 0 < scale[1]
                        /\ scale[1] < scale[2]
                        \* scale * measured <= 0.98 * max_w
                        /\ FracLeq(scale[1], scale[2], 98 * MaxW, 100 * MeasuredWidth(f))
                        \* scale * required <= 0.98 * max_w
                        /\ FracLeq(scale[1], scale[2], 98 * MaxW, 100 * RequiredWidth(f))
                   ELSE scale = One

\* A code block whose required width exceeds max_w was emitted, scaled down.
C10_Witness ==
    \E k \in 1..Len(flowables) :
        /\ flowables[k].type = "code"
        /\ RequiredWidth(flowables[k]) > MaxW
        /\ flowables[k].style.fontSize[2] # One

(***************************************************************************)
(* main and create_anki_deck: the numbering of the cards.                  *)
(*                                                                         *)
(* A section is its name (the first line after "# ") and the number of     *)
(* "## question / answer" matches of its body; a blank section is one that *)
(* section.strip() empties.  A card is named by the section it stands in   *)
(* and its place there, which stands for its question and answer texts.    *)
(***************************************************************************)
MaxSections == 3
MaxCardsPerSection == 2

\* Only the text before the first "# " can have an empty first line:
\* re.split's \s+ eats the white space that follows a "# ".
SectionNames(n) == IF n = 1 THEN {"", "A", "B"} ELSE {"A", "B"}

BlankSection == [name |-> "", ncards |-> 0, blank |-> TRUE]

SectionChoices(n) ==
    { [name |-> nm, ncards |-> c, blank |-> FALSE] :
        nm \in SectionNames(n), c \in 0..MaxCardsPerSection }
    \cup (IF n = 1 THEN {BlankSection} ELSE {})

Documents ==
    UNION { { d \in [1..n -> UNION { SectionChoices(k) : k \in 1..n }] :
                \A k \in 1..n : d[k] \in SectionChoices(k) } : n \in 0..MaxSections }

Card(s, k) == [sec |-> s, k |-> k]

\* re.findall(...) on the body of section s: its cards, in order
Matches(s) == [k \in 1..sections[s].ncards |-> Card(s, k)]

\* f"{q_raw.strip()}\n{len(pdf_qs) + 1}": the lines of the question string
QuestionString(card, n) == <<card, n>>

\* The question strings main appends for the cards ms, after qs.
RECURSIVE AppendQuestions(_, _)
AppendQuestions(qs, ms) ==
    IF ms = <<>> THEN qs
    ELSE AppendQuestions(Append(qs, QuestionString(Head(ms), Len(qs) + 1)), Tail(ms))

\* deck_data[subdeck_name] = rendered_pairs: a dict keeps the place of a key
\* it already holds and appends a new key.
DictSet(d, key, val) ==
    IF \E k \in 1..Len(d) : d[k].key = key
    THEN [k \in 1..Len(d) |-> IF d[k].key = key THEN [key |-> key, val |-> val] ELSE d[k]]
    ELSE Append(d, [key |-> key, val |-> val])

\* f"{global_idx:04d}": the decimal digits, padded with zeros to 4 places
RECURSIVE Digits(_)
Digits(n) == IF n < 10 THEN <<n>> ELSE Append(Digits(n \div 10), n % 10)
ZeroPad4(n) ==
    LET ds == Digits(n)
    IN  [k \in 1..(4 - Len(ds)) |-> 0] \o ds

\* Lines 56-67: the notes of the decks, with global_idx running over them.
RECURSIVE DeckNotes(_, _, _)
DeckNotes(name, pairs, global_idx) ==
    IF pairs = <<>> THEN <<>>
    ELSE <<[deck |-> name, card |-> Head(pairs),
            hidden |-> ZeroPad4(global_idx), caption |-> global_idx]>>
         \o DeckNotes(name, Tail(pairs), global_idx + 1)

RECURSIVE AnkiNotes(_, _)
AnkiNotes(d, global_idx) ==
    IF d = <<>> THEN <<>>
    ELSE DeckNotes(Head(d).key, Head(d).val, global_idx)
         \o AnkiNotes(Tail(d), global_idx + Len(Head(d).val))

\* Lines 157-159 and 327-330: the caption drawn under a question is the
\* last line of its string.
CardNum(q) == q[Len(q)]
Caption(q) == [card |-> q[1], caption |-> CardNum(q)]

InitMain ==
    /\ IdlePdf
    /\ IdleParse
    /\ IdlePre
    /\ sections \in Documents
    /\ anki \in BOOLEAN
    /\ mpc = "sections"
    /\ sec = 0
    /\ deck_data = <<>>
    /\ pdf_qs = <<>>
    /\ pdf_ans = <<>>
    /\ notes = <<>>
    /\ captions = <<>>

\* Lines 450-451: a blank section is passed over.
SkipBlankSection ==
    /\ mpc = "sections"
    /\ sec < Len(sections)
    /\ sections[sec + 1].blank
    /\ sec' = sec + 1
    /\ UNCHANGED <<sections, anki, mpc, deck_data, pdf_qs, pdf_ans, notes, captions,
                   pdfVars, parseVars, preVars>>

\* Lines 452-479: the cards of a section are appended to the PDF lists and
\* stored in deck_data under the section's name.
IngestSection ==
    /\ mpc = "sections"
    /\ sec < Len(sections)
    /\ ~sections[sec + 1].blank
    /\ LET matches == Matches(sec + 1)
       IN  /\ pdf_qs' = AppendQuestions(pdf_qs, matches)
           /\ pdf_ans' = pdf_ans \o matches
           /\ deck_data' = IF matches # <<>>
                           THEN DictSet(deck_data, sections[sec + 1].name, matches)
                           ELSE deck_data
    /\ sec' = sec + 1
    /\ UNCHANGED <<sections, anki, mpc, notes, captions, pdfVars, parseVars, preVars>>

\* Lines 481-490: create_anki_deck(deck_data, ...) when --anki is given.
CreateAnkiDeck ==
    /\ mpc = "sections"
    /\ sec = Len(sections)
    /\ anki
    /\ notes' = AnkiNotes(deck_data, 1)
    /\ mpc' = "pdf"
    /\ UNCHANGED <<sections, anki, sec, deck_data, pdf_qs, pdf_ans, captions,
                   pdfVars, parseVars, preVars>>

\* Line 481: no deck without --anki.
SkipAnkiDeck ==
    /\ mpc = "sections"
    /\ sec = Len(sections)
    /\ ~anki
    /\ mpc' = "pdf"
    /\ UNCHANGED <<sections, anki, sec, deck_data, pdf_qs, pdf_ans, notes, captions,
                   pdfVars, parseVars, preVars>>

\* Lines 492-493: create_pdf(pdf_qs, pdf_ans, ...) draws every question
\* with its caption.
CreatePdf ==
    /\ mpc = "pdf"
    /\ captions' = [k \in 1..Len(pdf_qs) |-> Caption(pdf_qs[k])]
    /\ mpc' = "done"
    /\ UNCHANGED <<sections, anki, sec, deck_data, pdf_qs, pdf_ans, notes,
                   pdfVars, parseVars, preVars>>

NextMain ==
    \/ SkipBlankSection
    \/ IngestSection
    \/ CreateAnkiDeck
    \/ SkipAnkiDeck
    \/ CreatePdf

SpecMain == InitMain /\ [][NextMain]_vars

(***************************************************************************)
(* Properties of the card numbering (SpecMain).                            *)
(***************************************************************************)
\* The number a zero-padded prefix spells.
RECURSIVE Spelled(_)
Spelled(ds) ==
    IF ds = <<>> THEN 0 ELSE 10 * Spelled(SubSeq(ds, 1, Len(ds) - 1)) + ds[Len(ds)]

\* The cards of the document, in document order.
RECURSIVE CardsFrom(_)
CardsFrom(s) ==
    IF s > Len(sections) THEN <<>>
    ELSE (IF sections[s].blank THEN <<>> ELSE Matches(s)) \o CardsFrom(s + 1)

\* C9: card index.  When main is done with --anki, the cards have the PDF
\* captions 1..N in document order, and every card has one Anki note, whose
\* hidden prefix and caption both give the index of its PDF caption.
C9_CardIndex ==
    (mpc = "done" /\ anki) =>
        LET cards == CardsFrom(1)
        IN  /\ Len(captions) = Len(cards)
            /\ \A n \in 1..Len(cards) :
                 /\ captions[n] = [card |-> cards[n], caption |-> n]
                 /\ Cardinality({ k \in 1..Len(notes) : notes[k].card = cards[n] }) = 1
                 /\ \A k \in 1..Len(notes) :
                      notes[k].card = cards[n] =>
                          /\ notes[k].caption = n
                          /\ Spelled(notes[k].hidden) = n

(***************************************************************************)
(* preprocess_markdown: the line loop of lines 352-404.                    *)
(*                                                                         *)
(* A line of the face is one of these texts:                               *)
(*   "fence"    ```                                                        *)
(*   "row"      | a |                                                      *)
(*   "sep"      |---|                                                      *)
(*   "blank"    the empty line                                             *)
(*   "text"     plain text                                                 *)
(*   "bullet"   - item                                                     *)
(*   "heading"  ### title                                                  *)
(* The two substitutions of lines 349-350 rewrite image references and     *)
(* capitalised tags inside a line and change none of these texts.          *)
(***************************************************************************)
MaxMdLines == 5

MdLines == {"fence", "row", "sep", "blank", "text", "bullet", "heading"}

\* re.match(r"^\|[\s\-:]+\|([\s\-:]+\|)*$", line_stripped)
IsSep(l) == l = "sep"

\* re.match(r"^[ \t]*([-*+]|\d+\.)\s+", line)
IsListItemLine(l) == l = "bullet"

\* prev_line_stripped.startswith("|")
StartsWithBar(l) == l \in {"row", "sep"}

\* prev_line_stripped.startswith("#")
StartsWithHash(l) == l = "heading"

\* An entry of cleaned_lines: the line, and the position in the face it was
\* copied from (0 for the blank line that line 402 inserts).
Kept(l, at) == [line |-> l, src |-> at]

\* Lines 389-402: the blank line inserted before a list item that follows
\* a line of text.
ListBlank(ls, n) ==
    IF /\ IsListItemLine(ls[n])
       /\ n > 1
       /\ ~IsBlank(ls[n - 1])
       /\ ~IsListItemLine(ls[n - 1])
       /\ ~StartsWithBar(ls[n - 1])
       /\ ~StartsWithHash(ls[n - 1])
    THEN <<Kept("blank", 0)>>
    ELSE <<>>

(***************************************************************************)
(* SpecPre: one call of preprocess_markdown(text).  main calls it on       *)
(* stripped texts: a single line, or lines of which the first and the last *)
(* are not blank.                                                          *)
(***************************************************************************)
MdFaces ==
    UNION { { f \in [1..n -> MdLines] :
                n > 1 => ~IsBlank(f[1]) /\ ~IsBlank(f[n]) } : n \in 1..MaxMdLines }

InitPre ==
    /\ IdlePdf
    /\ IdleParse
    /\ IdleMain
    /\ md_lines \in MdFaces
    /\ md_pc = "scan"
    /\ md_i = 0
    /\ md_in_table = FALSE
    /\ header_sep_seen = FALSE
    /\ md_in_code = FALSE
    /\ cleaned_lines = <<>>

MdAtLine == md_pc = "scan" /\ md_i < Len(md_lines)
MdLine == md_lines[md_i + 1]
MdStep == /\ md_i' = md_i + 1
          /\ UNCHANGED <<md_lines, md_pc, pdfVars, parseVars, mainVars>>

\* Lines 362-365: a fence toggles in_code and is kept.
MdFence ==
    /\ MdAtLine
    /\ IsFence(MdLine)
    /\ md_in_code' = ~md_in_code
    /\ cleaned_lines' = Append(cleaned_lines, Kept(MdLine, md_i + 1))
    /\ MdStep
    /\ UNCHANGED <<md_in_table, header_sep_seen>>

\* Lines 367-369: a line inside a code block is kept as it is.
MdCodeLine ==
    /\ MdAtLine
    /\ ~IsFence(MdLine)
    /\ md_in_code
    /\ cleaned_lines' = Append(cleaned_lines, Kept(MdLine, md_i + 1))
    /\ MdStep
    /\ UNCHANGED <<md_in_table, header_sep_seen, md_in_code>>

\* A line that reaches line 372 and is a table line.
MdTableLine ==
    /\ MdAtLine
    /\ ~IsFence(MdLine)
    /\ ~md_in_code
    /\ IsTableRow(MdLine)

\* Lines 374-376: header_sep_seen as it is after the `if not in_table`.
SepSeen == IF ~md_in_table THEN FALSE ELSE header_sep_seen

\* Lines 372-381: the first separator row of a table is kept.
MdSeparatorKept ==
    /\ MdTableLine
    /\ IsSep(MdLine)
    /\ ~SepSeen
    /\ md_in_table' = TRUE
    /\ header_sep_seen' = TRUE
    /\ cleaned_lines' = Append(cleaned_lines, Kept(MdLine, md_i + 1))
    /\ MdStep
    /\ UNCHANGED md_in_code

\* Lines 372-383: a later separator row is dropped.
MdSeparatorDropped ==
    /\ MdTableLine
    /\ IsSep(MdLine)
    /\ SepSeen
    /\ md_in_table' = TRUE
    /\ header_sep_seen' = SepSeen
    /\ MdStep
    /\ UNCHANGED <<md_in_code, cleaned_lines>>

\* Lines 372-376, 384-385: a row that is no separator is kept.
MdRow ==
    /\ MdTableLine
    /\ ~IsSep(MdLine)
    /\ md_in_table' = TRUE
    /\ header_sep_seen' = SepSeen
    /\ cleaned_lines' = Append(cleaned_lines, Kept(MdLine, md_i + 1))
    /\ MdStep
    /\ UNCHANGED md_in_code

\* Lines 386-404: any other line ends the table and is kept, a list item
\* after a blank line where one is needed.
MdOtherLine ==
    /\ MdAtLine
    /\ ~IsFence(MdLine)
    /\ ~md_in_code
    /\ ~IsTableRow(MdLine)
    /\ md_in_table' = FALSE
    /\ cleaned_lines' = Append(cleaned_lines \o ListBlank(md_lines, md_i + 1),
                               Kept(MdLine, md_i + 1))
    /\ MdStep
    /\ UNCHANGED <<header_sep_seen, md_in_code>>

\* Lines 406-426: the kept lines are joined and returned; dedent_code strips
\* the indentation of an indented fenced block from its lines, and removes
\* or reorders no line.
MdReturn ==
    /\ md_pc = "scan"
    /\ md_i = Len(md_lines)
    /\ md_pc' = "done"
    /\ UNCHANGED <<md_lines, md_i, md_in_table, header_sep_seen, md_in_code,
                   cleaned_lines, pdfVars, parseVars, mainVars>>

NextPre ==
    \/ MdFence
    \/ MdCodeLine
    \/ MdSeparatorKept
    \/ MdSeparatorDropped
    \/ MdRow
    \/ MdOtherLine
    \/ MdReturn

SpecPre == InitPre /\ [][NextPre]_vars

(***************************************************************************)
(* Properties of preprocess_markdown (SpecPre).                            *)
(***************************************************************************)
\* Line n of the face lies outside fenced code: it is no fence, and an even
\* number of fences precedes it.
OutsideCode(n) ==
    /\ ~IsFence(md_lines[n])
    /\ Cardinality({ k \in 1..(n - 1) : IsFence(md_lines[k]) }) % 2 = 0

\* Line n is a line of a table.
TableLineAt(n) == OutsideCode(n) /\ IsTableRow(md_lines[n])

\* The first line of the table line n belongs to: the start of the maximal
\* run of consecutive table lines around n.
TableStart(n) ==
    CHOOSE s \in 1..n :
        /\ \A k \in s..n : TableLineAt(k)
        /\ s = 1 \/ ~TableLineAt(s - 1)

\* Line n is a separator row with an earlier separator row in its table.
LaterSeparator(n) ==
    /\ IsSep(md_lines[n])
    /\ \E k \in TableStart(n)..(n - 1) : IsSep(md_lines[k])

\* The positions of the face's lines among the kept lines, in output order.
KeptPositions ==
    LET copied == SelectSeq(cleaned_lines, LAMBDA e : e.src # 0)
    IN  [k \in 1..Len(copied) |-> copied[k].src]

\* C11: the table separator is handled once per table.  In the returned
\* text every table line that is no separator is kept, the first separator
\* row of each table is kept and every later separator row of the same table
\* is dropped, and the kept lines stand in their original order; a table is
\* a maximal run of consecutive table lines outside fenced code, whatever
\* separates it from the table before.
C11_SeparatorOncePerTable ==
    md_pc = "done" =>
        /\ \A n \in 1..Len(md_lines) :
             TableLineAt(n) =>
                 ((n \in Range(KeptPositions)) <=> ~LaterSeparator(n))
        /\ \A a, b \in 1..Len(KeptPositions) :
             a < b => KeptPositions[a] < KeptPositions[b]
        /\ \A k \in 1..Len(cleaned_lines) :
             cleaned_lines[k].src # 0 =>
                 cleaned_lines[k].line = md_lines[cleaned_lines[k].src]
====
